---- MODULE Spec2Model ----
\* Membership tracking of the ECS core (src/src/Component.js): the per-world
\* bitflag/generation allocator, the component registry, addComponent /
\* removeComponent with their query synchronisation, and attribute assignment.
\* Query.js, Storage.js, World.js and Entity.js are collaborators that are not
\* part of the sources at hand; their operations are modelled from the contracts
\* the specification gives for them.
EXTENDS Integers, Sequences, FiniteSets, TLC

\* ------------------------------------------------------------------ bounds
\* world[$size]: entity ids are 0 .. Size-1
Size == 2
\* ids 0 .. NumEntities-1 are in world[$entitySparseSet]; the others are not
NumEntities == 1
\* number of components handed to one registerComponents(world, [...]) call
FillBatch == 30
\* how often registerComponent is called on a component that has a record (SpecReReg)
MaxReRegistrations == 1

\* ------------------------------------------------------- program constants
\* incrementBitflag compares the doubled cursor with 2**31 (Component.js:58).
\* 2**31 is not an integer TLC can hold, so the test is stated on the value
\* before doubling: 2*b >= 2**31 iff b >= 2**30.
HalfLimit == 1073741824
\* the usable bits of one generation: the flags 2**0 .. 2**30 below 2**31
SlotsPerGeneration == 31

\* ------------------------------------------------------------------ inputs
A == 1
B == 2
Named == {A, B}
Fillers == 3 .. (2 + FillBatch)
FillerList == [i \in 1 .. FillBatch |-> 2 + i]
Components == Named \cup Fillers
\* registerComponent(world, null | undefined)
Null == 0
Eids == 0 .. (Size - 1)
\* an eid argument that is undefined
Undefined == -1
EidArgs == Eids \cup {Undefined}

\* the queries defined on the world: Q requires A and B, QB requires B alone
Q == "qAB"
QB == "qB"
Queries == {Q, QB}
\* the queries that are called in Spec
CalledQueries == {Q}
allComponents(q) == IF q = Q THEN <<A, B>> ELSE <<B>>

VARIABLES
  bitflag,          \* world[$bitflag]
  entityMasks,      \* world[$entityMasks]: one word array per generation
  componentMap,     \* world[$componentMap]
  entitySparseSet,  \* world[$entitySparseSet]
  entityComponents, \* world[$entityComponents]
  queries,          \* world[$queries]
  qset,             \* q itself: the query's set of entities
  entered,          \* q.entered
  exited,           \* q.exited
  toRemove,         \* q.toRemove
  store,            \* the component stores, store[c][leaf][eid]
  lastWasAdd,       \* history: the last add/remove of (c, e) that returned was an add
  regIndex,         \* history: regIndex[c] = n when c was the n-th registration
  regCount,         \* history: number of registrations performed
  removedSince,     \* history: <<c, e>> with c removed from e while e matched a query of c,
                    \* not added back and no query call since
  readded           \* history: the entity the call just made gave back such a component to

worldVars == <<bitflag, entityMasks, componentMap, entitySparseSet, entityComponents,
               queries, qset, entered, exited, toRemove, store>>
histVars == <<lastWasAdd, regIndex, regCount, removedSince, readded>>
vars == <<worldVars, histVars>>

\* -------------------------------------------------------- 32-bit operators
\* x & y on words whose sign bit is clear, a byte at a time
RECURSIVE AndBits(_, _)
AndBits(x, y) ==
  IF x = 0 \/ y = 0 THEN 0
  ELSE (x % 2) * (y % 2) + 2 * AndBits(x \div 2, y \div 2)

RECURSIVE BitAnd(_, _)
BitAnd(x, y) ==
  IF x = 0 \/ y = 0 THEN 0
  ELSE AndBits(x % 256, y % 256) + 256 * BitAnd(x \div 256, y \div 256)

\* x | y
BitOr(x, y) == x + y - BitAnd(x, y)
\* x & ~y
BitAndNot(x, y) == x - BitAnd(x, y)

\* ------------------------------------------------------------------- world
\* The world as one value, so that the handlers compose as functions. thrown is
\* the error a call ended with ("none" when it returned); a call that throws
\* hands back the world as it stood when the error was raised.
World ==
  [ bitflag |-> bitflag, entityMasks |-> entityMasks, componentMap |-> componentMap,
    entitySparseSet |-> entitySparseSet, entityComponents |-> entityComponents,
    queries |-> queries, qset |-> qset, entered |-> entered, exited |-> exited,
    toRemove |-> toRemove, store |-> store, thrown |-> "none" ]

NoRecord == [generationId |-> -1, bitflag |-> 0, queries |-> {}]

ZeroWords == [e \in Eids |-> 0]

\* ---- Storage.js ----------------------------------------------------------
\* A has the schema {pos: {x}, hp}; every other component is a tag component.
Leaves(c) == IF c = A THEN {<<"pos", "x">>, <<"hp">>} ELSE {}

createStore(c) == [l \in Leaves(c) |-> [e \in Eids |-> 0]]

resetStoreFor(w, c, eid) ==
  [w EXCEPT !.store[c] = [l \in Leaves(c) |-> [w.store[c][l] EXCEPT ![eid] = 0]]]

\* ---- Component.js --------------------------------------------------------
\* mutant: the cursor wraps and no generation is appended
incrementBitflagNoPush(w) ==
  IF w.bitflag >= HalfLimit
  THEN [w EXCEPT !.bitflag = 1]
  ELSE [w EXCEPT !.bitflag = @ * 2]

\* mutant: the new generation replaces the mask words instead of following them
incrementBitflagFreshMasks(w) ==
  IF w.bitflag >= HalfLimit
  THEN [w EXCEPT !.bitflag = 1,
                 !.entityMasks = [g \in 1 .. (Len(@) + 1) |-> ZeroWords]]
  ELSE [w EXCEPT !.bitflag = @ * 2]

incrementBitflag(w) ==
  IF w.bitflag >= HalfLimit
  THEN [w EXCEPT !.bitflag = 1, !.entityMasks = Append(@, ZeroWords)]
  ELSE [w EXCEPT !.bitflag = @ * 2]

includes(list, c) == \E i \in DOMAIN list : list[i] = c

\* mutant: the cursor is advanced before the record is stored
registerComponentIncrementFirst(w, component) ==
  IF component = Null THEN [w EXCEPT !.thrown = "NullComponent"]
  ELSE
    LET qs == {q \in w.queries : includes(allComponents(q), component)}
        w1 == incrementBitflag(w)
        rec == [generationId |-> Len(w1.entityMasks) - 1, bitflag |-> w1.bitflag, queries |-> qs]
    IN [w1 EXCEPT !.componentMap[component] = rec]

\* mutant: the record is stored and the cursor stays where it was
registerComponentNoIncrement(w, component) ==
  IF component = Null THEN [w EXCEPT !.thrown = "NullComponent"]
  ELSE
    LET qs == {q \in w.queries : includes(allComponents(q), component)}
        rec == [generationId |-> Len(w.entityMasks) - 1, bitflag |-> w.bitflag, queries |-> qs]
    IN [w EXCEPT !.componentMap[component] = rec]

registerComponent(w, component) ==
  IF component = Null THEN [w EXCEPT !.thrown = "NullComponent"]
  ELSE
    LET qs == {q \in w.queries : includes(allComponents(q), component)}
        rec == [generationId |-> Len(w.entityMasks) - 1, bitflag |-> w.bitflag, queries |-> qs]
    IN incrementBitflag([w EXCEPT !.componentMap[component] = rec])

RECURSIVE registerComponents(_, _)
registerComponents(w, components) ==
  IF components = <<>> \/ w.thrown # "none" THEN w
  ELSE registerComponents(registerComponent(w, Head(components)), Tail(components))

hasComponent(w, component, eid) ==
  LET registeredComponent == w.componentMap[component] IN
  IF registeredComponent = NoRecord THEN FALSE
  ELSE LET mask == w.entityMasks[registeredComponent.generationId + 1][eid]
       IN BitAnd(mask, registeredComponent.bitflag) = registeredComponent.bitflag

\* ---- Query.js ------------------------------------------------------------
queryCheckEntity(w, q, eid) ==
  \A i \in DOMAIN allComponents(q) : hasComponent(w, allComponents(q)[i], eid)

queryAddEntity(w, q, eid) ==
  [w EXCEPT !.entered[q] = @ \cup {eid}, !.qset[q] = @ \cup {eid}]

queryRemoveEntity(w, q, eid) ==
  IF eid \notin w.qset[q] \/ eid \in w.toRemove[q] THEN w
  ELSE [w EXCEPT !.toRemove[q] = @ \cup {eid}, !.exited[q] = @ \cup {eid}]

\* what a call of the query returns: its set once the pending removals are committed
queryResult(w, q) == w.qset[q] \ w.toRemove[q]

\* ---- Component.js: query synchronisation of addComponent/removeComponent --
\* mutant: a pending removal of the entity is not cancelled
syncQueryKeepPending(w, q, eid) ==
  LET match == queryCheckEntity(w, q, eid)
  IN IF match
     THEN queryAddEntity([w EXCEPT !.exited[q] = @ \ {eid}], q, eid)
     ELSE queryRemoveEntity([w EXCEPT !.entered[q] = @ \ {eid}], q, eid)

\* mutant: a stale exit signal is not cancelled when the entity matches
syncQueryKeepExited(w, q, eid) ==
  LET w1 == [w EXCEPT !.toRemove[q] = @ \ {eid}]
      match == queryCheckEntity(w1, q, eid)
  IN IF match
     THEN queryAddEntity(w1, q, eid)
     ELSE queryRemoveEntity([w1 EXCEPT !.entered[q] = @ \ {eid}], q, eid)

syncQuery(w, q, eid) ==
  LET w1 == [w EXCEPT !.toRemove[q] = @ \ {eid}]
      match == queryCheckEntity(w1, q, eid)
  IN IF match
     THEN queryAddEntity([w1 EXCEPT !.exited[q] = @ \ {eid}], q, eid)
     ELSE queryRemoveEntity([w1 EXCEPT !.entered[q] = @ \ {eid}], q, eid)

RECURSIVE syncQueries(_, _, _)
syncQueries(w, qs, eid) ==
  IF qs = {} THEN w
  ELSE LET q == CHOOSE x \in qs : TRUE
       IN syncQueries(syncQuery(w, q, eid), qs \ {q}, eid)

\* mutant: the component is registered on every call, not only when it has no record
addComponentAlwaysRegisters(w, component, eid, reset) ==
  IF eid = Undefined THEN [w EXCEPT !.thrown = "EntityUndefined"]
  ELSE IF eid \notin w.entitySparseSet THEN [w EXCEPT !.thrown = "EntityNotFound"]
  ELSE
    LET w1 == registerComponent(w, component)
    IN IF hasComponent(w1, component, eid) THEN w1
       ELSE
         LET c == w1.componentMap[component]
             w2 == [w1 EXCEPT !.entityMasks[c.generationId + 1][eid] = BitOr(@, c.bitflag)]
             w3 == syncQueries(w2, c.queries, eid)
             w4 == [w3 EXCEPT !.entityComponents[eid] = @ \cup {component}]
         IN IF reset THEN resetStoreFor(w4, component, eid) ELSE w4

\* mutant: the lazy registration comes before the checks of the entity id
addComponentRegistersFirst(w, component, eid, reset) ==
  LET w1 == IF w.componentMap[component] = NoRecord
            THEN registerComponent(w, component) ELSE w
  IN
  IF eid = Undefined THEN [w1 EXCEPT !.thrown = "EntityUndefined"]
  ELSE IF eid \notin w1.entitySparseSet THEN [w1 EXCEPT !.thrown = "EntityNotFound"]
  ELSE IF hasComponent(w1, component, eid) THEN w1
  ELSE
    LET c == w1.componentMap[component]
        w2 == [w1 EXCEPT !.entityMasks[c.generationId + 1][eid] = BitOr(@, c.bitflag)]
        w3 == syncQueries(w2, c.queries, eid)
        w4 == [w3 EXCEPT !.entityComponents[eid] = @ \cup {component}]
    IN IF reset THEN resetStoreFor(w4, component, eid) ELSE w4

\* mutant: the stored values are zeroed whatever reset says
addComponentResetsAlways(w, component, eid, reset) ==
  IF eid = Undefined THEN [w EXCEPT !.thrown = "EntityUndefined"]
  ELSE IF eid \notin w.entitySparseSet THEN [w EXCEPT !.thrown = "EntityNotFound"]
  ELSE
    LET w1 == IF w.componentMap[component] = NoRecord
              THEN registerComponent(w, component) ELSE w
    IN IF hasComponent(w1, component, eid) THEN w1
       ELSE
         LET c == w1.componentMap[component]
             w2 == [w1 EXCEPT !.entityMasks[c.generationId + 1][eid] = BitOr(@, c.bitflag)]
             w3 == syncQueries(w2, c.queries, eid)
             w4 == [w3 EXCEPT !.entityComponents[eid] = @ \cup {component}]
         IN resetStoreFor(w4, component, eid)

\* mutant: the component is not entered in the entity's set of components
addComponentNotAttached(w, component, eid, reset) ==
  IF eid = Undefined THEN [w EXCEPT !.thrown = "EntityUndefined"]
  ELSE IF eid \notin w.entitySparseSet THEN [w EXCEPT !.thrown = "EntityNotFound"]
  ELSE
    LET w1 == IF w.componentMap[component] = NoRecord
              THEN registerComponent(w, component) ELSE w
    IN IF hasComponent(w1, component, eid) THEN w1
       ELSE
         LET c == w1.componentMap[component]
             w2 == [w1 EXCEPT !.entityMasks[c.generationId + 1][eid] = BitOr(@, c.bitflag)]
             w3 == syncQueries(w2, c.queries, eid)
         IN IF reset THEN resetStoreFor(w3, component, eid) ELSE w3

\* mutant: the bit is set in the word of the first generation
addComponentFirstGeneration(w, component, eid, reset) ==
  IF eid = Undefined THEN [w EXCEPT !.thrown = "EntityUndefined"]
  ELSE IF eid \notin w.entitySparseSet THEN [w EXCEPT !.thrown = "EntityNotFound"]
  ELSE
    LET w1 == IF w.componentMap[component] = NoRecord
              THEN registerComponent(w, component) ELSE w
    IN IF hasComponent(w1, component, eid) THEN w1
       ELSE
         LET c == w1.componentMap[component]
             w2 == [w1 EXCEPT !.entityMasks[1][eid] = BitOr(@, c.bitflag)]
             w3 == syncQueries(w2, c.queries, eid)
             w4 == [w3 EXCEPT !.entityComponents[eid] = @ \cup {component}]
         IN IF reset THEN resetStoreFor(w4, component, eid) ELSE w4

addComponent(w, component, eid, reset) ==
  IF eid = Undefined THEN [w EXCEPT !.thrown = "EntityUndefined"]
  ELSE IF eid \notin w.entitySparseSet THEN [w EXCEPT !.thrown = "EntityNotFound"]
  ELSE
    LET w1 == IF w.componentMap[component] = NoRecord
              THEN registerComponent(w, component) ELSE w
    IN IF hasComponent(w1, component, eid) THEN w1
       ELSE
         LET c == w1.componentMap[component]
             w2 == [w1 EXCEPT !.entityMasks[c.generationId + 1][eid] = BitOr(@, c.bitflag)]
             w3 == syncQueries(w2, c.queries, eid)
             w4 == [w3 EXCEPT !.entityComponents[eid] = @ \cup {component}]
         IN IF reset THEN resetStoreFor(w4, component, eid) ELSE w4

\* mutant: the mask is and-ed with the flag instead of its complement
removeComponentWrongMask(w, component, eid, reset) ==
  IF eid = Undefined THEN [w EXCEPT !.thrown = "EntityUndefined"]
  ELSE IF eid \notin w.entitySparseSet THEN [w EXCEPT !.thrown = "EntityNotFound"]
  ELSE IF ~hasComponent(w, component, eid) THEN w
  ELSE
    LET c == w.componentMap[component]
        w2 == [w EXCEPT !.entityMasks[c.generationId + 1][eid] = BitAnd(@, c.bitflag)]
        w3 == syncQueries(w2, c.queries, eid)
        w4 == [w3 EXCEPT !.entityComponents[eid] = @ \ {component}]
    IN IF reset THEN resetStoreFor(w4, component, eid) ELSE w4

\* mutant: a component without a record is registered, as addComponent does
removeComponentRegisters(w, component, eid, reset) ==
  IF eid = Undefined THEN [w EXCEPT !.thrown = "EntityUndefined"]
  ELSE IF eid \notin w.entitySparseSet THEN [w EXCEPT !.thrown = "EntityNotFound"]
  ELSE
    LET w1 == IF w.componentMap[component] = NoRecord
              THEN registerComponent(w, component) ELSE w
    IN IF ~hasComponent(w1, component, eid) THEN w1
       ELSE
         LET c == w1.componentMap[component]
             w2 == [w1 EXCEPT !.entityMasks[c.generationId + 1][eid] = BitAndNot(@, c.bitflag)]
             w3 == syncQueries(w2, c.queries, eid)
             w4 == [w3 EXCEPT !.entityComponents[eid] = @ \ {component}]
         IN IF reset THEN resetStoreFor(w4, component, eid) ELSE w4

\* mutant: the stored values are left as they are whatever reset says
removeComponentKeepsData(w, component, eid, reset) ==
  IF eid = Undefined THEN [w EXCEPT !.thrown = "EntityUndefined"]
  ELSE IF eid \notin w.entitySparseSet THEN [w EXCEPT !.thrown = "EntityNotFound"]
  ELSE IF ~hasComponent(w, component, eid) THEN w
  ELSE
    LET c == w.componentMap[component]
        w2 == [w EXCEPT !.entityMasks[c.generationId + 1][eid] = BitAndNot(@, c.bitflag)]
        w3 == syncQueries(w2, c.queries, eid)
    IN [w3 EXCEPT !.entityComponents[eid] = @ \ {component}]

removeComponent(w, component, eid, reset) ==
  IF eid = Undefined THEN [w EXCEPT !.thrown = "EntityUndefined"]
  ELSE IF eid \notin w.entitySparseSet THEN [w EXCEPT !.thrown = "EntityNotFound"]
  ELSE IF ~hasComponent(w, component, eid) THEN w
  ELSE
    LET c == w.componentMap[component]
        w2 == [w EXCEPT !.entityMasks[c.generationId + 1][eid] = BitAndNot(@, c.bitflag)]
        w3 == syncQueries(w2, c.queries, eid)
        w4 == [w3 EXCEPT !.entityComponents[eid] = @ \ {component}]
    IN IF reset THEN resetStoreFor(w4, component, eid) ELSE w4

\* ---- attribute assignment -------------------------------------------------
\* JavaScript values handed in as data. props is the list of an object's own
\* keys in insertion order, each with its value.
Num(n) == [type |-> "number", num |-> n, props |-> <<>>]
Obj(ps) == [type |-> "object", num |-> 0, props |-> ps]
Prop(k, v) == [k |-> k, v |-> v]
\* the values that are neither numbers nor objects with keys
undefinedData == [type |-> "undefined", num |-> 0, props |-> <<>>]
nullData == [type |-> "null", num |-> 0, props |-> <<>>]
stringData == [type |-> "string", num |-> 0, props |-> <<>>]
booleanData == [type |-> "boolean", num |-> 0, props |-> <<>>]
\* typeof v
typeOf(v) == IF v.type = "null" THEN "object" ELSE v.type

IsPrefix(p, l) == Len(p) < Len(l) /\ SubSeq(l, 1, Len(p)) = p
\* path names a nested section of the component (an object that is not a leaf array)
IsSection(c, path) == \E l \in Leaves(c) : IsPrefix(path, l)
\* componentSection is not undefined: path leads to the component itself, to
\* one of its sections or to one of its leaf arrays
IsDefined(c, path) == path = <<>> \/ IsSection(c, path) \/ path \in Leaves(c)

RECURSIVE recursivelySetComponentAttributes(_, _, _, _, _)
RECURSIVE setKeys(_, _, _, _, _)
\* componentSection is the part of component c reached through path
recursivelySetComponentAttributes(w, c, path, eid, data) ==
  IF typeOf(data) # "object" THEN w
  ELSE IF data.type = "null" THEN [w EXCEPT !.thrown = "TypeError"]
  ELSE setKeys(w, c, path, eid, data.props)

\* the forEach over Object.keys(data); an error ends it, and reading a key
\* of an undefined componentSection is one
setKeys(w, c, path, eid, props) ==
  IF props = <<>> \/ w.thrown # "none" THEN w
  ELSE IF ~IsDefined(c, path) THEN [w EXCEPT !.thrown = "TypeError"]
  ELSE
    LET k == Head(props).k
        v == Head(props).v
        target == Append(path, k)
        w1 == IF typeOf(v) # "number"
              THEN recursivelySetComponentAttributes(w, c, target, eid, v)
              ELSE IF target \in Leaves(c)
                   THEN [w EXCEPT !.store[c][target][eid] = v.num]
                   ELSE IF IsSection(c, target) THEN w
                   ELSE [w EXCEPT !.thrown = "TypeError"]
    IN setKeys(w1, c, path, eid, Tail(props))

\* mutant: the attributes are assigned whether the component is present or not
updateComponentUnchecked(w, component, eid, data) ==
  IF eid = Undefined THEN [w EXCEPT !.thrown = "EntityUndefined"]
  ELSE IF eid \notin w.entitySparseSet THEN [w EXCEPT !.thrown = "EntityNotFound"]
  ELSE recursivelySetComponentAttributes(w, component, <<>>, eid, data)

updateComponent(w, component, eid, data) ==
  IF eid = Undefined THEN [w EXCEPT !.thrown = "EntityUndefined"]
  ELSE IF eid \notin w.entitySparseSet THEN [w EXCEPT !.thrown = "EntityNotFound"]
  ELSE IF ~hasComponent(w, component, eid) THEN w
  ELSE recursivelySetComponentAttributes(w, component, <<>>, eid, data)

\* mutant: the attributes are assigned before the component is added
addAndPartiallyFillComponentFillsFirst(w, component, eid, data, reset) ==
  LET w1 == updateComponent(w, component, eid, data)
  IN IF w1.thrown # "none" THEN w1 ELSE addComponent(w1, component, eid, reset)

addAndPartiallyFillComponent(w, component, eid, data, reset) ==
  LET w1 == addComponent(w, component, eid, reset)
  IN IF w1.thrown # "none" THEN w1 ELSE updateComponent(w1, component, eid, data)

addAndFillComponent(w, component, eid, data, reset) ==
  addAndPartiallyFillComponent(w, component, eid, data, reset)

\* ---- Query.js: registration and the calls that consume a query -----------
RECURSIVE addInterest(_, _, _)
addInterest(w, q, list) ==
  IF list = <<>> THEN w
  ELSE addInterest([w EXCEPT !.componentMap[Head(list)].queries = @ \cup {q}], q, Tail(list))

RECURSIVE addMatching(_, _, _)
addMatching(w, q, eids) ==
  IF eids = {} THEN w
  ELSE LET eid == CHOOSE x \in eids : TRUE
           w1 == IF queryCheckEntity(w, q, eid) THEN queryAddEntity(w, q, eid) ELSE w
       IN addMatching(w1, q, eids \ {eid})

unregistered(w, list) == SelectSeq(list, LAMBDA c : w.componentMap[c] = NoRecord)

registerQuery(w, q) ==
  LET w1 == registerComponents(w, unregistered(w, allComponents(q)))
      w2 == addInterest([w1 EXCEPT !.queries = @ \cup {q}], q, allComponents(q))
  IN addMatching(w2, q, w2.entitySparseSet)

\* query(world): the pending removals are committed before the set is returned
commitRemovals(w) ==
  [w EXCEPT !.qset = [q \in Queries |-> w.qset[q] \ w.toRemove[q]],
            !.toRemove = [q \in Queries |-> {}]]

\* enterQuery(query)(world) hands out q.entered and empties it
enterQuery(w, q) == [w EXCEPT !.entered[q] = {}]

\* exitQuery(query)(world) hands out q.exited and empties it
exitQuery(w, q) == [w EXCEPT !.exited[q] = {}]

\* -------------------------------------------------------------------- Init
Init ==
  /\ bitflag = 1
  /\ entityMasks = <<ZeroWords>>
  /\ componentMap = [c \in Components |-> NoRecord]
  /\ entitySparseSet = 0 .. (NumEntities - 1)
  /\ entityComponents = [e \in 0 .. (NumEntities - 1) |-> {}]
  /\ queries = {}
  /\ qset = [q \in Queries |-> {}]
  /\ entered = [q \in Queries |-> {}]
  /\ exited = [q \in Queries |-> {}]
  /\ toRemove = [q \in Queries |-> {}]
  /\ store = [c \in Named |-> createStore(c)]
  /\ lastWasAdd = [c \in Named |-> [e \in Eids |-> FALSE]]
  /\ regIndex = [c \in Components |-> 0]
  /\ regCount = 0
  /\ removedSince = {}
  /\ readded = {}

\* ----------------------------------------------------------------- actions
\* the state after a call that ended in world w
Returns(w) ==
  /\ bitflag' = w.bitflag
  /\ entityMasks' = w.entityMasks
  /\ componentMap' = w.componentMap
  /\ entitySparseSet' = w.entitySparseSet
  /\ entityComponents' = w.entityComponents
  /\ queries' = w.queries
  /\ qset' = w.qset
  /\ entered' = w.entered
  /\ exited' = w.exited
  /\ toRemove' = w.toRemove
  /\ store' = w.store

\* history: the components of list were registered, in this order
Registers(list) ==
  /\ regCount' = regCount + Len(list)
  /\ regIndex' = IF list = <<>> THEN regIndex ELSE [c \in Components |->
       IF includes(list, c)
       THEN regCount + (CHOOSE i \in DOMAIN list : list[i] = c /\ \A j \in DOMAIN list : list[j] = c => j <= i)
       ELSE regIndex[c]]

Matches(q, eid) == q \in queries /\ queryCheckEntity(World, q, eid)

data_inputs(c) ==
  IF c = A
  THEN { Obj(<<Prop("hp", Num(10))>>),
         Obj(<<Prop("pos", Obj(<<Prop("x", Num(1))>>)), Prop("hp", Num(10))>>) }
  ELSE { Obj(<<>>) }

complete_inputs(c) ==
  IF c = A
  THEN { Obj(<<Prop("pos", Obj(<<Prop("x", Num(1))>>)), Prop("hp", Num(10))>>) }
  ELSE { Obj(<<>>) }

\* data that is no object shaped like the schema: the values without keys, a
\* bare number, and an object that holds null under a key
other_inputs(c) ==
  IF c = A
  THEN { undefinedData, nullData, stringData, booleanData, Num(7),
         Obj(<<Prop("hp", Num(10)), Prop("pos", nullData)>>) }
  ELSE {}

IsRegistered(c) == componentMap[c] # NoRecord

\* registerComponent(world, c) on a component without a record, or on null
RegisterComponent(c) ==
  /\ IF c = Null THEN TRUE ELSE ~IsRegistered(c)
  /\ \E w \in {registerComponent(World, c)} : Returns(w)
  /\ Registers(IF c = Null THEN <<>> ELSE <<c>>)
  /\ readded' = {}
  /\ UNCHANGED <<lastWasAdd, removedSince>>

\* registerComponents(world, [c3, c4, ...]) on components without records
RegisterComponents ==
  /\ \A i \in DOMAIN FillerList : ~IsRegistered(FillerList[i])
  /\ \E w \in {registerComponents(World, FillerList)} : Returns(w)
  /\ Registers(FillerList)
  /\ readded' = {}
  /\ UNCHANGED <<lastWasAdd, removedSince>>

AddComponent(c, eid, reset) ==
  \E w \in {addComponent(World, c, eid, reset)} :
  /\ Returns(w)
  /\ Registers(IF w.thrown = "none" /\ ~IsRegistered(c) THEN <<c>> ELSE <<>>)
  /\ lastWasAdd' = IF w.thrown = "none" THEN [lastWasAdd EXCEPT ![c][eid] = TRUE] ELSE lastWasAdd
  /\ removedSince' = IF w.thrown = "none" THEN removedSince \ {<<c, eid>>} ELSE removedSince
  /\ readded' = IF w.thrown = "none" /\ <<c, eid>> \in removedSince THEN {eid} ELSE {}

RemoveComponent(c, eid, reset) ==
  \E w \in {removeComponent(World, c, eid, reset)} :
  /\ Returns(w)
  /\ lastWasAdd' = IF w.thrown = "none" THEN [lastWasAdd EXCEPT ![c][eid] = FALSE] ELSE lastWasAdd
  /\ removedSince' =
       IF w.thrown = "none" /\ \E q \in Queries : Matches(q, eid) /\ includes(allComponents(q), c)
       THEN removedSince \cup {<<c, eid>>} ELSE removedSince
  /\ readded' = {}
  /\ UNCHANGED <<regIndex, regCount>>

UpdateComponent(c, eid, data) ==
  /\ \E w \in {updateComponent(World, c, eid, data)} : Returns(w)
  /\ readded' = {}
  /\ UNCHANGED <<lastWasAdd, regIndex, regCount, removedSince>>

AddAndPartiallyFillComponent(c, eid, data, reset) ==
  \E w \in {addAndPartiallyFillComponent(World, c, eid, data, reset)},
     added \in {addComponent(World, c, eid, reset).thrown = "none"} :
  /\ Returns(w)
  /\ Registers(IF added /\ ~IsRegistered(c) THEN <<c>> ELSE <<>>)
  /\ lastWasAdd' = IF added THEN [lastWasAdd EXCEPT ![c][eid] = TRUE] ELSE lastWasAdd
  /\ removedSince' = IF added THEN removedSince \ {<<c, eid>>} ELSE removedSince
  /\ readded' = IF added /\ <<c, eid>> \in removedSince THEN {eid} ELSE {}

AddAndFillComponent(c, eid, data, reset) ==
  \E w \in {addAndFillComponent(World, c, eid, data, reset)},
     added \in {addComponent(World, c, eid, reset).thrown = "none"} :
  /\ Returns(w)
  /\ Registers(IF added /\ ~IsRegistered(c) THEN <<c>> ELSE <<>>)
  /\ lastWasAdd' = IF added THEN [lastWasAdd EXCEPT ![c][eid] = TRUE] ELSE lastWasAdd
  /\ removedSince' = IF added THEN removedSince \ {<<c, eid>>} ELSE removedSince
  /\ readded' = IF added /\ <<c, eid>> \in removedSince THEN {eid} ELSE {}

\* the first call of a query in this world registers it
RegisterQuery(q) ==
  /\ q \notin queries
  /\ \E w \in {registerQuery(World, q)} : Returns(w)
  /\ Registers(unregistered(World, allComponents(q)))
  /\ readded' = {}
  /\ UNCHANGED <<lastWasAdd, removedSince>>

\* a later call of the query
QueryCall(q) ==
  /\ q \in queries
  /\ \E w \in {commitRemovals(World)} : Returns(w)
  /\ removedSince' = {}
  /\ readded' = {}
  /\ UNCHANGED <<lastWasAdd, regIndex, regCount>>

EnterQueryCall(q) ==
  /\ q \in queries
  /\ \E w \in {enterQuery(World, q)} : Returns(w)
  /\ removedSince' = {}
  /\ readded' = {}
  /\ UNCHANGED <<lastWasAdd, regIndex, regCount>>

ExitQueryCall(q) ==
  /\ q \in queries
  /\ \E w \in {exitQuery(World, q)} : Returns(w)
  /\ removedSince' = {}
  /\ readded' = {}
  /\ UNCHANGED <<lastWasAdd, regIndex, regCount>>

Next ==
  \/ \E c \in Named \cup {Null} : RegisterComponent(c)
  \/ RegisterComponents
  \/ \E c \in Named, eid \in EidArgs, reset \in BOOLEAN : AddComponent(c, eid, reset)
  \/ \E c \in Named, eid \in EidArgs, reset \in BOOLEAN : RemoveComponent(c, eid, reset)
  \/ \E c \in Named, eid \in EidArgs :
       \E data \in data_inputs(c) \cup other_inputs(c) : UpdateComponent(c, eid, data)
  \/ \E c \in Named, eid \in EidArgs, reset \in BOOLEAN :
       \E data \in data_inputs(c) : AddAndPartiallyFillComponent(c, eid, data, reset)
  \/ \E c \in Named, eid \in EidArgs, reset \in BOOLEAN :
       \E data \in complete_inputs(c) : AddAndFillComponent(c, eid, data, reset)
  \/ \E q \in CalledQueries : RegisterQuery(q)
  \/ \E q \in CalledQueries : QueryCall(q)
  \/ \E q \in CalledQueries : EnterQueryCall(q)
  \/ \E q \in CalledQueries : ExitQueryCall(q)

Spec == Init /\ [][Next]_vars

\* registerComponent(world, c) called again on a component that has a record
ReRegisterComponent(c) ==
  /\ IsRegistered(c)
  /\ regCount - Cardinality({d \in Components : IsRegistered(d)}) < MaxReRegistrations
  /\ \E w \in {registerComponent(World, c)} : Returns(w)
  /\ Registers(<<c>>)
  /\ readded' = {}
  /\ UNCHANGED <<lastWasAdd, removedSince>>

NextReReg ==
  \/ \E c \in Named \cup {Null} : RegisterComponent(c)
  \/ \E c \in Named : ReRegisterComponent(c)
  \/ RegisterComponents
  \/ \E c \in Named, eid \in EidArgs : AddComponent(c, eid, FALSE)
  \/ \E c \in Named, eid \in EidArgs : RemoveComponent(c, eid, TRUE)

\* registerComponent, registerComponents, addComponent and removeComponent in
\* any order, the callers registering a component more than once
SpecReReg == Init /\ [][NextReReg]_vars

\* a world in which the first and the last entity id are admitted
FrameEntities == {0, Size - 1}
InitFrame ==
  /\ bitflag = 1
  /\ entityMasks = <<ZeroWords>>
  /\ componentMap = [c \in Components |-> NoRecord]
  /\ entitySparseSet = FrameEntities
  /\ entityComponents = [e \in FrameEntities |-> {}]
  /\ queries = {}
  /\ qset = [q \in Queries |-> {}]
  /\ entered = [q \in Queries |-> {}]
  /\ exited = [q \in Queries |-> {}]
  /\ toRemove = [q \in Queries |-> {}]
  /\ store = [c \in Named |-> createStore(c)]
  /\ lastWasAdd = [c \in Named |-> [e \in Eids |-> FALSE]]
  /\ regIndex = [c \in Components |-> 0]
  /\ regCount = 0
  /\ removedSince = {}
  /\ readded = {}

NextFrame ==
  \/ RegisterComponents
  \/ \E c \in Named, eid \in Eids : AddComponent(c, eid, FALSE)
  \/ \E c \in Named, eid \in Eids : RemoveComponent(c, eid, TRUE)
  \/ \E q \in Queries : RegisterQuery(q)
  \/ \E q \in Queries : QueryCall(q)
  \/ \E q \in Queries : EnterQueryCall(q)
  \/ \E q \in Queries : ExitQueryCall(q)

\* membership changes on several entities under two queries, the components
\* registered by the batch, by the queries or lazily
SpecFrame == InitFrame /\ [][NextFrame]_vars

\* ------------------------------------------------------------------ claims
Existing == entitySparseSet
MissingArgs == EidArgs \ Existing
errorFor(eid) == IF eid = Undefined THEN "EntityUndefined" ELSE "EntityNotFound"
Threw(w, err) == w = [World EXCEPT !.thrown = err]
IsFlag(b) == \E k \in 0 .. (SlotsPerGeneration - 1) : b = 2 ^ k
Mask(c, eid) == entityMasks[componentMap[c].generationId + 1][eid]

\* C1: for every existing entity e and component C, hasComponent(world, C, e)
\* holds iff the bit of C's record is set in the mask word of e, and iff the
\* last addComponent/removeComponent call on (C, e) that returned was an add.
C1_MaskEquivalence ==
  \A c \in Named, e \in Existing :
    /\ hasComponent(World, c, e) <=> lastWasAdd[c][e]
    /\ IsRegistered(c) =>
         (BitAnd(Mask(c, e), componentMap[c].bitflag) = componentMap[c].bitflag
            <=> lastWasAdd[c][e])

\* one component is attached, another was attached and has been removed again
C1_Witness ==
  \E e \in Existing, c \in Named, d \in Named :
    /\ hasComponent(World, c, e) /\ lastWasAdd[c][e]
    /\ IsRegistered(d) /\ ~hasComponent(World, d, e) /\ <<d, e>> \in removedSince

C4_ReaddInBothSets ==
  \A e \in readded : \A q \in queries : e \in entered[q] /\ e \in exited[q]

\* C5: a second addComponent (removeComponent) call with the same arguments
\* leaves the world exactly as the first call left it.
C5_Idempotence ==
  \A c \in Named, e \in Existing, reset \in BOOLEAN :
    LET a1 == addComponent(World, c, e, reset)
        r1 == removeComponent(World, c, e, reset)
    IN /\ addComponent(a1, c, e, reset) = a1
       /\ removeComponent(r1, c, e, reset) = r1

\* the component is attached, its data is set and the entity is in q.entered:
\* a further add with reset changes nothing
C5_Witness ==
  \E e \in Existing :
    /\ hasComponent(World, A, e) /\ lastWasAdd[A][e]
    /\ store[A][<<"hp">>][e] # 0 /\ e \in entered[Q]
    /\ addComponent(World, A, e, TRUE) = World

\* C6: every mutation called with an entity id that is undefined or not in the
\* existence set ends with the matching error and leaves the world as it was.
C6_ExistenceGuard ==
  \A c \in Named, eid \in MissingArgs, reset \in BOOLEAN :
    /\ Threw(addComponent(World, c, eid, reset), errorFor(eid))
    /\ Threw(removeComponent(World, c, eid, reset), errorFor(eid))
    /\ \A data \in data_inputs(c) :
         /\ Threw(updateComponent(World, c, eid, data), errorFor(eid))
         /\ Threw(addAndPartiallyFillComponent(World, c, eid, data, reset), errorFor(eid))
         /\ Threw(addAndFillComponent(World, c, eid, data, reset), errorFor(eid))

\* a world with a live query and data, and a component that has no record yet,
\* on which the guarded calls fail
C6_Witness ==
  \E c \in Named, d \in Named, e \in Existing :
    /\ ~IsRegistered(c) /\ hasComponent(World, d, e)
    /\ addComponent(World, c, Size - 1, FALSE).thrown = "EntityNotFound"
    /\ addComponent(World, c, Undefined, FALSE).thrown = "EntityUndefined"

\* C7: every record's bitflag is one of 2^0 .. 2^30, its generationId indexes
\* entityMasks, the cursor is one of 2^0 .. 2^30, and no generation holds more
\* than 31 records.
C7_RecordInvariant ==
  /\ IsFlag(bitflag)
  /\ \A c \in Components :
       IsRegistered(c) =>
         /\ IsFlag(componentMap[c].bitflag)
         /\ componentMap[c].generationId \in 0 .. (Len(entityMasks) - 1)
  /\ \A g \in 0 .. (Len(entityMasks) - 1) :
       Cardinality({c \in Components : componentMap[c].generationId = g}) <= SlotsPerGeneration

\* the first generation is full and a component has its record in the second
C7_Witness ==
  /\ Len(entityMasks) = 2
  /\ Cardinality({c \in Components : componentMap[c].generationId = 0}) = SlotsPerGeneration
  /\ \E c \in Components : componentMap[c].generationId = 1

\* C8: the n-th component registered in a fresh world has generationId
\* floor((n-1)/31) and bitflag 2^((n-1) mod 31); after n registrations the
\* cursor is 2^(n mod 31), there are floor(n/31) + 1 generations, and a
\* generation in which no component has a record yet is all zero.
C8_DeterministicAllocation ==
  /\ \A c \in Components :
       regIndex[c] > 0 =>
         /\ IsRegistered(c)
         /\ componentMap[c].generationId = (regIndex[c] - 1) \div SlotsPerGeneration
         /\ componentMap[c].bitflag = 2 ^ ((regIndex[c] - 1) % SlotsPerGeneration)
  /\ bitflag = 2 ^ (regCount % SlotsPerGeneration)
  /\ Len(entityMasks) = (regCount \div SlotsPerGeneration) + 1
  /\ \A g \in 0 .. (Len(entityMasks) - 1) :
       (\A c \in Components : componentMap[c].generationId # g) => entityMasks[g + 1] = ZeroWords

\* the 31st registration got 2^30 of generation 0, and a component registered
\* lazily as the 32nd got bit 1 of generation 1
C8_Witness ==
  /\ \E c \in Components :
       regIndex[c] = 31 /\ componentMap[c].generationId = 0 /\ componentMap[c].bitflag = HalfLimit
  /\ \E c \in Named, e \in Existing :
       /\ regIndex[c] = 32 /\ componentMap[c].generationId = 1 /\ componentMap[c].bitflag = 1
       /\ hasComponent(World, c, e)

Pair(r) == <<r.generationId, r.bitflag>>

\* C9 as stated: once a component has a record, its (generationId, bitflag)
\* pair never changes, registerComponent called again on it included.
C9_PairNeverChanges ==
  [][\A c \in Components :
       IsRegistered(c) => Pair(componentMap'[c]) = Pair(componentMap[c])]_vars

\* C9 amended: the pair of a record changes only in a call that registers the
\* component again; and hasComponent(world, C, e) turns false only in a
\* removeComponent(world, C, e) call or a call that registers C again.
C9_PairChangesOnlyOnReRegistration ==
  [][\A c \in Components :
       (IsRegistered(c) /\ regIndex'[c] = regIndex[c]) =>
         /\ Pair(componentMap'[c]) = Pair(componentMap[c])
         /\ c \in Named =>
              \A e \in Existing :
                (hasComponent(World, c, e) /\ lastWasAdd'[c][e]) =>
                  hasComponent(World, c, e)']_vars

\* a component registered a second time holds a record other than its first
C9_Witness ==
  \E c \in Named :
    /\ IsRegistered(c) /\ regIndex[c] > 2
    /\ \E d \in Named : d # c /\ regIndex[d] = 2
    /\ regCount = 3

\* C10 as stated: removeComponent on a component without a record registers it.
C10_RemoveRegisters ==
  \A c \in Named, e \in Existing, reset \in BOOLEAN :
    ~IsRegistered(c) => removeComponent(World, c, e, reset).componentMap[c] # NoRecord

\* C10 amended: removeComponent on a component without a record registers
\* nothing and changes nothing.
C10_RemoveUnregisteredIsNoOp ==
  \A c \in Named, e \in Existing, reset \in BOOLEAN :
    ~IsRegistered(c) => removeComponent(World, c, e, reset) = World

\* a component has no record while another one is attached and holds data
C10_Witness ==
  \E e \in Existing :
    /\ ~IsRegistered(B) /\ hasComponent(World, A, e) /\ store[A][<<"hp">>][e] # 0
    /\ removeComponent(World, B, e, TRUE) = World

\* the stored values of component c at index e
Values(w, c, e) == [l \in Leaves(c) |-> w.store[c][l][e]]
ZeroValues(c) == [l \in Leaves(c) |-> 0]

\* C11 as stated: removeComponent(world, C, e) with the default reset leaves
\* every leaf of C's store at index e at 0, whatever calls came before.
C11_RemoveAlwaysZeroes ==
  \A c \in Named, e \in Existing :
    LET w == removeComponent(World, c, e, TRUE)
    IN w.thrown = "none" => Values(w, c, e) = ZeroValues(c)

\* C11 amended: removeComponent(world, C, e) with the default reset returns
\* with every leaf of C's store at index e at 0 when C was present on e, and
\* leaves the store as it was when C was absent.
C11_RemoveOfPresentZeroes ==
  \A c \in Named, e \in Existing :
    \A w \in {removeComponent(World, c, e, TRUE)} :
      /\ w.thrown = "none"
      /\ hasComponent(World, c, e) => Values(w, c, e) = ZeroValues(c)
      /\ ~hasComponent(World, c, e) => w.store = store

\* the component is attached with every leaf set, and the removal zeroes them
C11_Witness ==
  \E e \in Existing :
    /\ hasComponent(World, A, e)
    /\ \A l \in Leaves(A) : store[A][l][e] # 0
    /\ Values(removeComponent(World, A, e, TRUE), A, e) = ZeroValues(A)

\* C12: addComponent(world, C, e) with the default reset leaves the whole
\* store as it was, C absent or present; with reset passed as true it zeroes
\* the values of C at index e when C was absent and nothing else.
C12_AddKeepsData ==
  \A c \in Named, e \in Existing :
    /\ addComponent(World, c, e, FALSE).store = store
    /\ addComponent(World, c, e, TRUE).store =
         IF hasComponent(World, c, e) THEN store
         ELSE [store EXCEPT ![c] = [l \in Leaves(c) |-> [store[c][l] EXCEPT ![e] = 0]]]

\* the component is absent and its values of an earlier attachment are still
\* stored: the default add attaches it and keeps them, the add with reset
\* zeroes them
C12_Witness ==
  \E e \in Existing :
    /\ ~hasComponent(World, A, e)
    /\ \A l \in Leaves(A) : store[A][l][e] # 0
    /\ hasComponent(addComponent(World, A, e, FALSE), A, e)
    /\ addComponent(World, A, e, FALSE).store = store
    /\ Values(addComponent(World, A, e, TRUE), A, e) = ZeroValues(A)

\* the numeric leaves of a data object, each with the path of keys that leads to it
RECURSIVE numericLeavesAt(_, _)
numericLeavesAt(path, props) ==
  UNION { LET k == Append(path, props[i].k)
              v == props[i].v
          IN IF v.type = "number" THEN {<<k, v.num>>}
             ELSE IF v.type = "object" THEN numericLeavesAt(k, v.props)
             ELSE {} : i \in DOMAIN props }
numericLeaves(data) == IF data.type = "object" THEN numericLeavesAt(<<>>, data.props) ELSE {}
namedPaths(data) == {nl[1] : nl \in numericLeaves(data)}

\* world a, left by addComponent, has the bit of c set for e and every live
\* query synchronised
Added(a, c, e) ==
  /\ a.thrown = "none"
  /\ hasComponent(a, c, e)
  /\ \A q \in a.queries : (e \in queryResult(a, q)) <=> queryCheckEntity(a, q, e)

\* world w is world a but for the numeric leaves of data, stored for c at index e
FilledAfterAdd(w, a, c, e, data) ==
  /\ w.thrown = "none"
  /\ hasComponent(w, c, e)
  /\ [w EXCEPT !.store = a.store] = a
  /\ \A leaves \in {numericLeaves(data)} :
       /\ \A nl \in leaves : w.store[c][nl[1]][e] = nl[2]
       /\ w.store = [a.store EXCEPT ![c] = [l \in Leaves(c) |->
            IF l \in {nl[1] : nl \in leaves}
            THEN [a.store[c][l] EXCEPT ![e] = w.store[c][l][e]]
            ELSE a.store[c][l]]]

\* C13: addAndPartiallyFillComponent and addAndFillComponent return with the
\* component present and every numeric leaf of data stored at index e, for
\* either reset flag and with C absent or present before; the membership
\* change, the query synchronisation and the reset are those of addComponent
\* and come before the first store write.
C13_FillAfterAdd ==
  \A c \in Named, e \in Existing, reset \in BOOLEAN :
    \A a \in {addComponent(World, c, e, reset)} :
      /\ Added(a, c, e)
      /\ \A data \in data_inputs(c) :
           \A w \in {addAndPartiallyFillComponent(World, c, e, data, reset)} :
             FilledAfterAdd(w, a, c, e, data)
      /\ \A data \in complete_inputs(c) :
           \A w \in {addAndFillComponent(World, c, e, data, reset)} :
             FilledAfterAdd(w, a, c, e, data)

\* the component is absent, values of an earlier attachment are stored and a
\* query waits for it: the fill with reset attaches it, enters the query,
\* zeroes the leaf not named in data and stores the leaf named in data
C13_Witness ==
  \E e \in Existing :
    /\ ~hasComponent(World, A, e) /\ hasComponent(World, B, e) /\ Q \in queries
    /\ \A l \in Leaves(A) : store[A][l][e] # 0
    /\ LET w == addAndPartiallyFillComponent(World, A, e, Obj(<<Prop("hp", Num(10))>>), TRUE)
       IN /\ hasComponent(w, A, e) /\ e \in queryResult(w, Q)
          /\ w.store[A][<<"hp">>][e] = 10 /\ w.store[A][<<"pos", "x">>][e] = 0

\* C14: updateComponent on an existing entity without the component (removed,
\* never added or never registered) returns the world as it was; with the
\* component present it stores the numeric leaves of data at index e and
\* leaves every other stored value, mask, record and query set as it was.
C14_UpdateFrame ==
  \A c \in Named, e \in Existing : \A data \in data_inputs(c) :
    \A w \in {updateComponent(World, c, e, data)} :
      IF ~hasComponent(World, c, e) THEN w = World
      ELSE /\ [w EXCEPT !.store = store] = World
           /\ \A nl \in numericLeaves(data) : w.store[c][nl[1]][e] = nl[2]
           /\ \A d \in Named, x \in Eids : \A l \in Leaves(d) :
                (d # c \/ x # e \/ l \notin namedPaths(data)) => w.store[d][l][x] = store[d][l][x]

\* one component is attached with its values at zero and the update writes the
\* one leaf its data names; another has no record and its update changes nothing
C14_Witness ==
  \E e \in Existing :
    /\ hasComponent(World, A, e) /\ Values(World, A, e) = ZeroValues(A)
    /\ ~IsRegistered(B)
    /\ updateComponent(World, B, e, Obj(<<>>)) = World
    /\ LET w == updateComponent(World, A, e, Obj(<<Prop("hp", Num(10))>>))
       IN w.store[A][<<"hp">>][e] = 10 /\ w.store[A][<<"pos", "x">>][e] = 0

\* the values the claim lists
NonMapping == {undefinedData, nullData, stringData, booleanData, Num(7)}
Keys == {"hp", "pos", "other"}

\* C15 as stated: recursivelySetComponentAttributes returns without raising
\* and without a write when data is undefined, null, a string, a boolean or a
\* bare number, and when such a value (a number apart, which is stored) is
\* the value of a key of data.
C15_NonMappingIsSilent ==
  \A c \in Named, e \in Existing : \A v \in NonMapping :
    /\ recursivelySetComponentAttributes(World, c, <<>>, e, v) = World
    /\ v.type # "number" =>
         \A k \in Keys : recursivelySetComponentAttributes(World, c, <<>>, e, Obj(<<Prop(k, v)>>)) = World

\* C16: any two distinct components that have records have distinct
\* (generationId, bitflag) pairs, after explicit, lazy and repeated
\* registrations and across a generation overflow.
C16_UniquePairs ==
  \A c, d \in Components :
    (c # d /\ IsRegistered(c) /\ IsRegistered(d)) => Pair(componentMap[c]) # Pair(componentMap[d])

\* every component has a record, one of them in the second generation with
\* the bitflag that another one holds in the first
C16_Witness ==
  /\ \A c \in Components : IsRegistered(c)
  /\ \E c, d \in Components :
       /\ componentMap[c].bitflag = componentMap[d].bitflag
       /\ componentMap[c].generationId = 0 /\ componentMap[d].generationId = 1

\* the number of registerComponent calls made on a component that had a record
ReRegistrations == regCount - Cardinality({c \in Components : IsRegistered(c)})

\* C17 as stated: after any registerComponent, addComponent and
\* removeComponent calls, C is in entityComponents[e] exactly when
\* hasComponent(world, C, e) is true.
C17_AttachedMirrorsMasks ==
  \A e \in Existing, c \in Components :
    (c \in entityComponents[e]) <=> hasComponent(World, c, e)

\* C17 amended: hasComponent(world, C, e) implies that C is in
\* entityComponents[e], and the two agree for every entity and component as
\* long as no component has been registered a second time.
C17_AttachedMirrorsMasksOnce ==
  \A e \in Existing, c \in Components :
    /\ hasComponent(World, c, e) => c \in entityComponents[e]
    /\ ReRegistrations = 0 => ((c \in entityComponents[e]) <=> hasComponent(World, c, e))

\* no component was registered twice; one is attached and another, whose
\* record is in the second generation, was last removed
C17_Witness ==
  \E e \in Existing, c, d \in Named :
    /\ ReRegistrations = 0
    /\ lastWasAdd[c][e] /\ hasComponent(World, c, e) /\ c \in entityComponents[e]
    /\ IsRegistered(d) /\ componentMap[d].generationId = 1
    /\ ~lastWasAdd[d][e] /\ ~hasComponent(World, d, e) /\ d \notin entityComponents[e]

\* the sets of query q in world w, restricted to the entities of es
QuerySets(w, q, es) ==
  <<w.qset[q] \cap es, w.entered[q] \cap es, w.exited[q] \cap es,
    w.toRemove[q] \cap es, queryResult(w, q) \cap es>>

\* the components hasComponent is asked about: the named ones and the first
\* and the last of the batch, which lie in different generations when the
\* batch is registered after a named one
Observed == Named \cup {FillerList[1], FillerList[FillBatch]}

\* world w differs from the current world by a membership change of
\* component c on entity e at most
MembershipFrame(w, c, e) ==
  LET rec == w.componentMap[c] IN
  /\ w.thrown = "none"
  /\ \A c2 \in Components \ {c} : w.componentMap[c2] = componentMap[c2]
  /\ \A c2 \in Observed, e2 \in Eids :
       <<c2, e2>> # <<c, e>> => (hasComponent(w, c2, e2) <=> hasComponent(World, c2, e2))
  /\ Len(w.entityMasks) >= Len(entityMasks)
  /\ \A g \in DOMAIN w.entityMasks, x \in Eids :
       IF g > Len(entityMasks) THEN w.entityMasks[g][x] = 0
       ELSE IF g = rec.generationId + 1 /\ x = e
            THEN BitAndNot(w.entityMasks[g][x], rec.bitflag) = BitAndNot(entityMasks[g][x], rec.bitflag)
            ELSE w.entityMasks[g][x] = entityMasks[g][x]
  /\ \A q \in Queries :
       /\ QuerySets(w, q, Eids \ {e}) = QuerySets(World, q, Eids \ {e})
       /\ ~includes(allComponents(q), c) => QuerySets(w, q, Eids) = QuerySets(World, q, Eids)

\* C18: addComponent(world, C, e) and removeComponent(world, C, e) change at
\* most the bit of C in the mask word of e; hasComponent is unchanged for
\* every other pair of a component and an entity id, the sets of a query that
\* does not require C are unchanged, and so are the entries of every query's
\* sets for the other entities.
C18_MembershipFrame ==
  \A c \in Named, e \in Existing :
    \A w \in {addComponent(World, c, e, FALSE), removeComponent(World, c, e, TRUE)} :
      MembershipFrame(w, c, e)

\* A is added lazily as the first component of the second generation, to one
\* of two entities that are in the query on B
C18_Witness ==
  \E e, x \in Existing :
    /\ e # x /\ QB \in queries
    /\ ~IsRegistered(A) /\ regCount = SlotsPerGeneration
    /\ e \in queryResult(World, QB) /\ x \in queryResult(World, QB)
    /\ \E w \in {addComponent(World, A, e, FALSE)} :
          /\ w.componentMap[A].generationId = 1 /\ hasComponent(w, A, e)
          /\ Len(w.entityMasks) = 2 /\ ~hasComponent(w, A, x)
          /\ QuerySets(w, QB, Eids) = QuerySets(World, QB, Eids)

====
